---- MODULE Spec2Model ----
(***************************************************************************)
(* A model of the bank-statement parser: transactions_extractor.py         *)
(* (identify_bank, extract_transactions_from_region, process_pdf) and the  *)
(* main of cropbox_locator.py.                                             *)
(*                                                                         *)
(* Texts are sequences of one-character strings.  A date text is the       *)
(* record [fmt, d, m, y] of the numbers it spells in the layout fmt.  A    *)
(* Timestamp is the integer y*10000 + m*100 + d; a float amount is the     *)
(* integer number of hundredths (the amount regex admits at most two       *)
(* fractional digits).  -1 stands for a raised ValueError in both parsers. *)
(***************************************************************************)
EXTENDS Integers, Sequences, FiniteSets

\* ------------------------------------------------------------------ bounds
MaxLines == 3

\* ------------------------------------------------------------------- texts
Digits == {"0", "1", "2", "3", "4", "5", "6", "7", "8", "9"}

DigitVal(c) ==
    CASE c = "0" -> 0 [] c = "1" -> 1 [] c = "2" -> 2 [] c = "3" -> 3
      [] c = "4" -> 4 [] c = "5" -> 5 [] c = "6" -> 6 [] c = "7" -> 7
      [] c = "8" -> 8 [] c = "9" -> 9

\* str.replace(old, ''): every non-overlapping occurrence, left to right.
RECURSIVE Replace(_, _)
Replace(s, old) ==
    IF old = <<>> \/ Len(s) < Len(old) THEN s
    ELSE IF SubSeq(s, 1, Len(old)) = old
         THEN Replace(SubSeq(s, Len(old) + 1, Len(s)), old)
         ELSE <<s[1]>> \o Replace(Tail(s), old)

RECURSIVE LStrip(_)
LStrip(s) == IF s # <<>> /\ s[1] = " " THEN LStrip(Tail(s)) ELSE s

RECURSIVE RStrip(_)
RStrip(s) ==
    IF s # <<>> /\ s[Len(s)] = " " THEN RStrip(SubSeq(s, 1, Len(s) - 1)) ELSE s

\* str.strip()
Strip(s) == RStrip(LStrip(s))

\* sub in s
Contains(s, sub) ==
    \E k \in 0..(Len(s) - Len(sub)) : SubSeq(s, k + 1, k + Len(sub)) = sub

AllIn(s, S) == \A k \in 1..Len(s) : s[k] \in S

RECURSIVE ToNat(_)
ToNat(s) ==
    IF s = <<>> THEN 0
    ELSE 10 * ToNat(SubSeq(s, 1, Len(s) - 1)) + DigitVal(s[Len(s)])

\* float(s) on the texts the amount group can hold, in hundredths; -1 is
\* the ValueError.
ParseFloat(s) ==
    LET dots == {k \in 1..Len(s) : s[k] = "."}
        p    == IF dots = {} THEN Len(s) + 1 ELSE CHOOSE k \in dots : TRUE
        ip   == SubSeq(s, 1, p - 1)
        fp   == SubSeq(s, p + 1, Len(s))
    IN  IF \/ ~AllIn(s, Digits \cup {"."})
           \/ Cardinality(dots) > 1
           \/ Len(ip) + Len(fp) = 0
        THEN -1
        ELSE 100 * ToNat(ip)
             + (IF Len(fp) = 0 THEN 0
                ELSE IF Len(fp) = 1 THEN 10 * DigitVal(fp[1])
                ELSE 10 * DigitVal(fp[1]) + DigitVal(fp[2]))

\* \d{1,3}(?:,\d{3})*\.?\d{0,2} matching the whole of s
NumeralShape(s) ==
    \E a \in 1..3, dot \in 0..1, f \in 0..2 :
        LET rest == Len(s) - a - dot - f
            k    == rest \div 4
        IN  /\ rest >= 0
            /\ rest % 4 = 0
            /\ AllIn(SubSeq(s, 1, a), Digits)
            /\ \A j \in 0..(k - 1) :
                   /\ s[a + 4 * j + 1] = ","
                   /\ AllIn(SubSeq(s, a + 4 * j + 2, a + 4 * j + 4), Digits)
            /\ (dot = 1 => s[a + 4 * k + 1] = ".")
            /\ AllIn(SubSeq(s, a + 4 * k + dot + 1, Len(s)), Digits)

\* (?:numeral)(?:\s*Cr)? matching the whole of s
SuffixedShape(s) ==
    \/ NumeralShape(s)
    \/ \E k \in 1..(Len(s) - 2) :
           /\ NumeralShape(SubSeq(s, 1, k))
           /\ AllIn(SubSeq(s, k + 1, Len(s) - 2), {" "})
           /\ SubSeq(s, Len(s) - 1, Len(s)) = <<"C", "r">>

\* ------------------------------------------------------------------- dates
FmtDBY == "%d %b %y"
FmtDMY4 == "%d/%m/%Y"

DaysIn(m, y) ==
    IF m = 2 THEN (IF y % 4 = 0 /\ (y % 100 # 0 \/ y % 400 = 0) THEN 29 ELSE 28)
    ELSE IF m \in {4, 6, 9, 11} THEN 30 ELSE 31

\* pd.to_datetime(text, format=fmt): the Timestamp, or -1 for the raised
\* error.  %y follows strptime: 69..99 are 1969..1999, 0..68 are 2000..2068.
to_datetime(t, fmt) ==
    LET y == IF fmt = FmtDBY THEN (IF t.y < 69 THEN 2000 + t.y ELSE 1900 + t.y)
             ELSE t.y
    IN  IF t.fmt # fmt \/ t.m \notin 1..12 \/ t.d \notin 1..DaysIn(t.m, y)
        THEN -1
        ELSE y * 10000 + t.m * 100 + t.d

\* Timestamp.strftime(fmt)
strftime(ts, fmt) ==
    LET y == ts \div 10000
    IN  [fmt |-> fmt,
         d   |-> ts % 100,
         m   |-> (ts \div 100) % 100,
         y   |-> IF fmt = FmtDBY THEN y % 100 ELSE y]

\* ---------------------------------------------------------------- patterns
\* BankPattern.  A None type_group is 0 and a None credit_suffix is <<>>:
\* the code only tests their truthiness.
BankPattern(name, regex, date_format, type_group, credit_suffix) ==
    [name              |-> name,
     pattern           |-> regex,
     date_format       |-> date_format,
     date_out_format   |-> FmtDBY,
     credit_identifier |-> <<"C">>,
     debit_identifier  |-> <<"D">>,
     amount_group      |-> 3,
     date_group        |-> 1,
     desc_group        |-> 2,
     type_group        |-> type_group,
     credit_suffix     |-> credit_suffix]

\* The names of the regular expressions of the model:
\*   RxSbi   (\d{2} \w{3} \d{2}) (.*?) (numeral) ([CD])
\*   RxHdfc  (\d{2}/\d{2}/\d{4})\s+(.*?)\s+((?:numeral)(?:\s*Cr)?)\s*$
\*   RxOpt   a caller's regex in the SBI layout whose amount group ([\d,.]+)
\*           and type group ([CD]) are optional
RxSbi == "sbi"
RxHdfc == "hdfc"
RxOpt == "opt"

Cr == <<"C", "r">>

SBI == BankPattern("SBI", RxSbi, FmtDBY, 4, <<>>)
HDFC == BankPattern("HDFC", RxHdfc, FmtDMY4, 0, Cr)

\* BANK_PATTERNS, in insertion order
BankKeys == <<"sbi", "hdfc">>
BANK_PATTERNS == [k \in {"sbi", "hdfc"} |-> IF k = "sbi" THEN SBI ELSE HDFC]

\* BankPattern objects a caller can construct and pass: the dataclass
\* validates nothing.
OPT == BankPattern("OPT", RxOpt, FmtDBY, 4, <<>>)
NOTYPE == BankPattern("NOTYPE", RxSbi, FmtDBY, 0, <<>>)
BOTH == BankPattern("BOTH", RxSbi, FmtDBY, 4, Cr)
HDFC4 == BankPattern("HDFC4", RxHdfc, FmtDMY4, 4, Cr)
CallerPatterns == {OPT, NOTYPE, BOTH, HDFC4}

\* ------------------------------------------------------------------- lines
\* A line of the region text, as the fields a pattern's groups can capture;
\* absent names the fields the line does not have, junk a line no pattern
\* matches.
Line(date, desc, amt, typ, absent) ==
    [junk |-> FALSE, date |-> date, desc |-> desc, amt |-> amt, typ |-> typ,
     absent |-> absent]

DateText(fmt, d, m, y) == [fmt |-> fmt, d |-> d, m |-> m, y |-> y]

Shop == <<" ", "S", "H", "O", "P">>
Zero == <<"0", ".", "0", "0">>
Num1234 == <<"1", ",", "2", "3", "4", ".", "5", "0">>

JunkLine ==
    [junk |-> TRUE, date |-> DateText(FmtDBY, 0, 0, 0), desc |-> <<>>,
     amt |-> <<>>, typ |-> <<>>, absent |-> {}]

SbiDates ==
    {DateText(FmtDBY, 1, 1, 24), DateText(FmtDBY, 2, 1, 24)}

HdfcDates ==
    {DateText(FmtDMY4, 1, 1, 2024), DateText(FmtDMY4, 1, 1, 2069)}

\* Lines in the SBI layout: every date with every type, a zero amount, a
\* date that no calendar has, and a line that is no transaction.
SbiLines ==
    {Line(dt, Shop, Num1234, t, {}) : dt \in SbiDates, t \in {<<"C">>, <<"D">>}}
    \cup {Line(DateText(FmtDBY, 1, 1, 24), Shop, Zero, t, {}) :
             t \in {<<"C">>, <<"D">>}}
    \cup {Line(DateText(FmtDBY, 30, 2, 24), Shop, Num1234, <<"D">>, {}), JunkLine}

\* The same in the HDFC layout, with and without the credit suffix.
HdfcLines ==
    {Line(dt, Shop, Num1234 \o s, <<>>, {"typ"}) :
        dt \in HdfcDates, s \in {<<>>, <<" ">> \o Cr}}
    \cup {Line(DateText(FmtDMY4, 1, 1, 2024), Shop, Zero \o s, <<>>, {"typ"}) :
             s \in {<<>>, <<" ">> \o Cr}}
    \cup {Line(DateText(FmtDMY4, 30, 2, 2024), Shop, Num1234, <<>>, {"typ"}),
          JunkLine}

OptLines ==
    {Line(DateText(FmtDBY, 1, 1, 24), Shop, a, <<"C">>, {}) :
        a \in {Num1234, <<",">>}}
    \cup {Line(DateText(FmtDBY, 1, 1, 24), Shop, <<>>, <<"D">>, {"amt"}),
          Line(DateText(FmtDBY, 1, 1, 24), Shop, Num1234, <<>>, {"typ"}),
          Line(DateText(FmtDBY, 1, 1, 24), Shop, <<>>, <<>>, {"amt", "typ"}),
          JunkLine}

LinesFor(regex) ==
    IF regex = RxSbi THEN SbiLines
    ELSE IF regex = RxHdfc THEN HdfcLines ELSE OptLines

\* text.split('\n'): every sequence of at most MaxLines lines
LineSeqs(regex) == UNION {[1..n -> LinesFor(regex)] : n \in 0..MaxLines}

\* ---------------------------------------------------------------- matching
NoMatch == [matched |-> FALSE, vals |-> <<>>, absent |-> {}]

\* re.search(pattern.pattern, line) and match.groups(): vals are the groups,
\* absent the (1-based) indexes of the groups that are None.
Match(regex, line) ==
    IF line.junk THEN NoMatch
    ELSE IF regex = RxSbi THEN
        IF /\ line.absent = {}
           /\ line.date.fmt = FmtDBY
           /\ NumeralShape(line.amt)
           /\ line.typ \in {<<"C">>, <<"D">>}
        THEN [matched |-> TRUE,
              vals |-> <<line.date, line.desc, line.amt, line.typ>>,
              absent |-> {}]
        ELSE NoMatch
    ELSE IF regex = RxHdfc THEN
        IF /\ line.absent = {"typ"}
           /\ line.date.fmt = FmtDMY4
           /\ SuffixedShape(line.amt)
        THEN [matched |-> TRUE,
              vals |-> <<line.date, Strip(line.desc), line.amt>>,
              absent |-> {}]
        ELSE NoMatch
    ELSE
        IF /\ line.absent \subseteq {"amt", "typ"}
           /\ line.date.fmt = FmtDBY
           /\ ("amt" \notin line.absent => AllIn(line.amt, Digits \cup {",", "."})
                                           /\ line.amt # <<>>)
           /\ ("typ" \notin line.absent => line.typ \in {<<"C">>, <<"D">>})
        THEN [matched |-> TRUE,
              vals |-> <<line.date, line.desc, line.amt, line.typ>>,
              absent |-> {k \in {3, 4} : (IF k = 3 THEN "amt" ELSE "typ")
                                            \in line.absent}]
        ELSE NoMatch

\* The test for a None group left out.
MissingGroupUnchecked(m) == FALSE

\* any(g is None for g in groups)
MissingGroup(m) == m.absent # {}

\* --------------------------------------------------------------- one line
Skip(status) == [status |-> status, rec |-> <<>>]

\* The suffix looked for in the cleaned amount text instead of the raw one.
IsCreditAfterCleaning(p, m, raw) ==
    IF p.type_group # 0
    THEN p.type_group \notin m.absent /\ m.vals[p.type_group] = p.credit_identifier
    ELSE /\ p.credit_suffix # <<>>
         /\ Contains(Strip(Replace(Replace(raw, <<",">>), p.credit_suffix)),
                     p.credit_suffix)

\* is_credit, lines 226-232; raw is groups[amount_group - 1] before cleaning
IsCredit(p, m, raw) ==
    IF p.type_group # 0
    THEN p.type_group \notin m.absent /\ m.vals[p.type_group] = p.credit_identifier
    ELSE p.credit_suffix # <<>> /\ Contains(raw, p.credit_suffix)

\* The debit left positive.
SignedNeverNegated(amount, is_credit) == amount

\* "Make amount negative for debits"
Signed(amount, is_credit) == IF is_credit THEN amount ELSE 0 - amount

\* The body of the loop for one line: the status it prints and the records
\* (none or one) it appends.
ExtractLine(p, line) ==
    LET m == Match(p.pattern, line) IN
    IF ~m.matched THEN Skip("nomatch")
    ELSE IF MissingGroup(m) THEN Skip("missing")
    ELSE IF p.date_group \in m.absent \/ p.desc_group \in m.absent
         THEN Skip("error")
    ELSE LET date_obj == to_datetime(m.vals[p.date_group], p.date_format) IN
    IF date_obj = -1 THEN Skip("error")
    ELSE IF p.amount_group \in m.absent THEN Skip("noamount")
    ELSE LET raw    == m.vals[p.amount_group]
             amount == ParseFloat(Strip(Replace(Replace(raw, <<",">>),
                                                p.credit_suffix)))
    IN
    IF amount = -1 THEN Skip("badamount")
    ELSE IF p.type_group # 0 /\ p.type_group > Len(m.vals) THEN Skip("error")
    ELSE LET is_credit == IsCredit(p, m, raw) IN
         [status |-> "ok",
          rec |-> <<[Date        |-> strftime(date_obj, p.date_out_format),
                     Description |-> Strip(m.vals[p.desc_group]),
                     Amount      |-> Signed(amount, is_credit),
                     Type        |-> IF is_credit THEN p.credit_identifier
                                     ELSE p.debit_identifier]>>]

\* ---------------------------------------------------------- identification
\* The first page's text, as a sequence of words.
MarkerHdfc == <<"HDFC", "Bank", "Credit", "Cards", "GSTIN">>
MarkerSbi == <<"GSTIN", "of", "SBI", "Card">>

\* The markers tried in the order of BANK_PATTERNS.
bank_identifiers_in_pattern_order ==
    <<[bank_id |-> "sbi", identifier |-> MarkerSbi],
      [bank_id |-> "hdfc", identifier |-> MarkerHdfc]>>

\* bank_identifiers of identify_bank, in insertion order
bank_identifiers == <<[bank_id |-> "hdfc", identifier |-> MarkerHdfc],
                      [bank_id |-> "sbi", identifier |-> MarkerSbi]>>

PageTexts ==
    {<<>>, <<"HDFC", "Bank", "Statement">>, MarkerHdfc, MarkerSbi,
     MarkerSbi \o <<"and">> \o MarkerHdfc}

\* What PdfReader(...).pages[0].extract_text() gives: a text, or an exception.
Pages == {[raises |-> r, text |-> t] : r \in BOOLEAN, t \in PageTexts}

\* for bank_id, identifier in bank_identifiers.items(): if identifier in text
RECURSIVE FirstIdentified(_, _)
FirstIdentified(ids, text) ==
    IF ids = <<>> THEN "None"
    ELSE IF Contains(text, ids[1].identifier) THEN ids[1].bank_id
    ELSE FirstIdentified(Tail(ids), text)

identify_bank(page) ==
    IF page.raises THEN "None" ELSE FirstIdentified(bank_identifiers, page.text)

\* -------------------------------------------------------------------- table
\* pd.DataFrame(transactions) with its RangeIndex, Date parsed back with
\* date_out_format (line 255).
Frame(p, recs) ==
    [k \in 1..Len(recs) |->
        [idx         |-> k - 1,
         Date        |-> to_datetime(recs[k].Date, p.date_out_format),
         Description |-> recs[k].Description,
         Amount      |-> recs[k].Amount,
         Type        |-> recs[k].Type]]

Orderings(n) == {f \in [1..n -> 1..n] : \A a, b \in 1..n : a # b => f[a] # f[b]}

IsSortedByDate(t) == \A a, b \in 1..Len(t) : a < b => t[a].Date <= t[b].Date

\* df.sort_values('Date'): kind defaults to 'quicksort', which is not a
\* stable sort, so every ordering of the rows that is sorted by Date is a
\* possible result.
sort_values(frame) ==
    {t \in {[k \in 1..Len(frame) |-> frame[f[k]]] : f \in Orderings(Len(frame))} :
        IsSortedByDate(t)}

\* ----------------------------------------------------------------- programs
VARIABLES
    prog,           \* the entry point of the run
    pc,             \* the position in it
    args,           \* the command line (bank, show_content, cropbox)
    tmp_exists,     \* whether the temporary PDF is on disk
    page,           \* what identify_bank read
    bank,           \* process_pdf's bank
    bank_pattern,   \* the argument of extract_transactions_from_region
    pattern,        \* its resolved BankPattern
    lines,          \* text.split('\n')
    i,              \* lines processed
    transactions,   \* the list of dicts
    log,            \* the status printed for each processed line
    df,             \* the returned DataFrame
    extract_error,  \* whether the outer except of the extraction ran
    output,         \* the messages printed
    raised          \* whether an exception left main

vars == <<prog, pc, args, tmp_exists, page, bank, bank_pattern, pattern, lines,
          i, transactions, log, df, extract_error, output, raised>>

NoPattern == BankPattern("", "", "", 0, <<>>)
NoPage == [raises |-> FALSE, text |-> <<>>]
Key(k) == [is_str |-> TRUE, key |-> k, obj |-> NoPattern]
Obj(p) == [is_str |-> FALSE, key |-> "", obj |-> p]
NoArgs == [bank |-> "None", show_content |-> FALSE, cropbox |-> FALSE]

InitRest ==
    /\ pc = "start"
    /\ tmp_exists = FALSE
    /\ page = NoPage
    /\ pattern = NoPattern
    /\ lines = <<>>
    /\ i = 0
    /\ transactions = <<>>
    /\ log = <<>>
    /\ df = <<>>
    /\ extract_error = FALSE
    /\ output = <<>>
    /\ raised = FALSE

\* transactions_extractor.py run from the command line: --bank is absent,
\* sbi or hdfc.
InitProcessPdf ==
    /\ prog = "process_pdf"
    /\ \E b \in {"None", "sbi", "hdfc"} :
           /\ args = [NoArgs EXCEPT !.bank = b]
           /\ bank = b
    /\ bank_pattern = Key("")
    /\ InitRest

\* extract_transactions_from_region called with a key or a BankPattern.
InitExtract ==
    /\ prog = "extract"
    /\ args = NoArgs
    /\ bank = "None"
    /\ bank_pattern \in {Key("icici")} \cup {Obj(p) : p \in CallerPatterns}
    /\ InitRest

\* cropbox_locator.py run from the command line.
InitLocator ==
    /\ prog = "locator"
    /\ \E sc \in BOOLEAN, cb \in BOOLEAN :
           args = [NoArgs EXCEPT !.show_content = sc, !.cropbox = cb]
    /\ bank = "None"
    /\ bank_pattern = Key("")
    /\ InitRest

Init == InitProcessPdf \/ InitExtract \/ InitLocator

\* A return that leaves without the finally block.
ReturnPastFinally == "done"

\* A return inside the try block runs the finally block first.
ReturnInTry == "finally"

\* where extract_transactions_from_region returns to
ReturnSite == IF prog = "process_pdf" THEN "report" ELSE "done"

\* with tempfile.NamedTemporaryFile(suffix='.pdf', delete=False)
CreateTemp ==
    /\ pc = "start"
    /\ prog \in {"process_pdf", "locator"}
    /\ tmp_exists' = TRUE
    /\ pc' = "preprocess"
    /\ UNCHANGED <<prog, args, page, bank, bank_pattern, pattern, lines, i,
                   transactions, log, df, extract_error, output, raised>>

\* preprocess_pdf returned True
PreprocessOk ==
    /\ pc = "preprocess"
    /\ pc' = IF prog = "process_pdf" THEN "identify" ELSE "act"
    /\ UNCHANGED <<prog, args, tmp_exists, page, bank, bank_pattern, pattern,
                   lines, i, transactions, log, df, extract_error, output, raised>>

\* preprocess_pdf returned False
PreprocessFailed ==
    /\ pc = "preprocess"
    /\ output' = Append(output, "Preprocessing failed, stopping.")
    /\ pc' = ReturnInTry
    /\ UNCHANGED <<prog, args, tmp_exists, page, bank, bank_pattern, pattern,
                   lines, i, transactions, log, df, extract_error, raised>>

\* if not bank: bank = identify_bank(tmp_path)
Identify ==
    /\ pc = "identify"
    /\ bank = "None"
    /\ \E pg \in Pages :
           /\ page' = pg
           /\ bank' = identify_bank(pg)
           /\ IF identify_bank(pg) = "None"
              THEN /\ output' = Append(output, "Could not identify bank type.")
                   /\ pc' = ReturnInTry
              ELSE /\ output' = output
                   /\ pc' = "extract"
    /\ UNCHANGED <<prog, args, tmp_exists, bank_pattern, pattern, lines, i,
                   transactions, log, df, extract_error, raised>>

\* --bank was given
IdentifySkipped ==
    /\ pc = "identify"
    /\ bank # "None"
    /\ pc' = "extract"
    /\ UNCHANGED <<prog, args, tmp_exists, page, bank, bank_pattern, pattern,
                   lines, i, transactions, log, df, extract_error, output, raised>>

\* df = extract_transactions_from_region(tmp_path, crop_box, bank)
CallExtract ==
    /\ pc = "extract"
    /\ bank_pattern' = Key(bank)
    /\ pc' = "resolve"
    /\ UNCHANGED <<prog, args, tmp_exists, page, bank, pattern, lines, i,
                   transactions, log, df, extract_error, output, raised>>

AtEntry == pc = "resolve" \/ (prog = "extract" /\ pc = "start")

\* lines 161-168: BANK_PATTERNS.get(key.lower()), or the object itself
Resolved(bp) ==
    IF bp.is_str
    THEN IF bp.key \in DOMAIN BANK_PATTERNS
         THEN [ok |-> TRUE, pattern |-> BANK_PATTERNS[bp.key]]
         ELSE [ok |-> FALSE, pattern |-> NoPattern]
    ELSE [ok |-> TRUE, pattern |-> bp.obj]

\* the outer except: "Error extracting transactions", return pd.DataFrame()
Failed ==
    /\ df' = <<>>
    /\ extract_error' = TRUE
    /\ output' = Append(output, "Error extracting transactions")
    /\ pc' = ReturnSite

\* raise ValueError("Unknown bank pattern")
UnknownPattern ==
    /\ AtEntry
    /\ ~Resolved(bank_pattern).ok
    /\ Failed
    /\ UNCHANGED <<prog, args, tmp_exists, page, bank, bank_pattern, pattern,
                   lines, i, transactions, log, raised>>

\* PdfReader, the crop or extract_text raises
ReadFailed ==
    /\ AtEntry
    /\ Resolved(bank_pattern).ok
    /\ pattern' = Resolved(bank_pattern).pattern
    /\ Failed
    /\ UNCHANGED <<prog, args, tmp_exists, page, bank, bank_pattern, lines, i,
                   transactions, log, raised>>

\* lines 161-182: the pattern is resolved and the region's text is split
ReadLines ==
    /\ AtEntry
    /\ Resolved(bank_pattern).ok
    /\ pattern' = Resolved(bank_pattern).pattern
    /\ lines' \in LineSeqs(Resolved(bank_pattern).pattern.pattern)
    /\ i' = 0
    /\ transactions' = <<>>
    /\ pc' = "loop"
    /\ UNCHANGED <<prog, args, tmp_exists, page, bank, bank_pattern, log, df,
                   extract_error, output, raised>>

\* An exception in the body that ends the loop.
LoopAbortOnError(status, k, n) == IF status = "error" THEN n ELSE k + 1

\* The loop goes on to the next line whatever the line's status: each path
\* of the body ends in continue or falls through.
LoopContinue(status, k, n) == k + 1

\* one iteration of for i, line in enumerate(lines)
ProcessLine ==
    /\ pc = "loop"
    /\ i < Len(lines)
    /\ LET r == ExtractLine(pattern, lines[i + 1])
       IN  /\ transactions' = transactions \o r.rec
           /\ log' = Append(log, r.status)
           /\ i' = LoopContinue(r.status, i, Len(lines))
    /\ UNCHANGED <<prog, pc, args, tmp_exists, page, bank, bank_pattern, pattern,
                   lines, df, extract_error, output, raised>>

\* lines 250-258: the DataFrame, sorted when it is not empty
BuildTable ==
    /\ pc = "loop"
    /\ i >= Len(lines)
    /\ LET frame == Frame(pattern, transactions)
       IN  IF \E k \in 1..Len(frame) : frame[k].Date = -1
           THEN Failed
           ELSE /\ df' \in sort_values(frame)
                /\ pc' = ReturnSite
                /\ UNCHANGED <<extract_error, output>>
    /\ UNCHANGED <<prog, args, tmp_exists, page, bank, bank_pattern, pattern,
                   lines, i, transactions, log, raised>>

\* if not df.empty: ... df.to_csv(output_csv)
ReportSaved ==
    /\ pc = "report"
    /\ df # <<>>
    /\ \E ok \in BOOLEAN :
           output' = Append(output, IF ok THEN "Saved transactions"
                                    ELSE "Error processing PDF")
    /\ pc' = "finally"
    /\ UNCHANGED <<prog, args, tmp_exists, page, bank, bank_pattern, pattern,
                   lines, i, transactions, log, df, extract_error, raised>>

\* else: print("No transactions found in the PDF")
ReportNone ==
    /\ pc = "report"
    /\ df = <<>>
    /\ output' = Append(output, "No transactions found in the PDF")
    /\ pc' = "finally"
    /\ UNCHANGED <<prog, args, tmp_exists, page, bank, bank_pattern, pattern,
                   lines, i, transactions, log, df, extract_error, raised>>

\* cropbox_locator main, lines 174-193
LocatorAct ==
    /\ pc = "act"
    /\ IF args.show_content
       THEN \* extract_text_content catches its exceptions and returns None
            /\ \E got \in BOOLEAN :
                   output' = IF got THEN Append(output, "Extracted Text Content")
                             ELSE Append(output, "Error extracting text")
            /\ raised' = raised
       ELSE IF args.cropbox
       THEN \* visualize_cropbox catches nothing
            /\ \E r \in BOOLEAN : raised' = r
            /\ output' = output
       ELSE UNCHANGED <<output, raised>>
    /\ pc' = "finally"
    /\ UNCHANGED <<prog, args, tmp_exists, page, bank, bank_pattern, pattern,
                   lines, i, transactions, log, df, extract_error>>

\* finally: if os.path.exists(tmp_path): os.unlink(tmp_path)
Finally ==
    /\ pc = "finally"
    /\ tmp_exists' = FALSE
    /\ output' = IF prog = "process_pdf" /\ tmp_exists
                 THEN Append(output, "Cleaned up temporary files") ELSE output
    /\ pc' = "done"
    /\ UNCHANGED <<prog, args, page, bank, bank_pattern, pattern, lines, i,
                   transactions, log, df, extract_error, raised>>

Next ==
    \/ CreateTemp
    \/ PreprocessOk
    \/ PreprocessFailed
    \/ Identify
    \/ IdentifySkipped
    \/ CallExtract
    \/ UnknownPattern
    \/ ReadFailed
    \/ ReadLines
    \/ ProcessLine
    \/ BuildTable
    \/ ReportSaved
    \/ ReportNone
    \/ LocatorAct
    \/ Finally

Spec == Init /\ [][Next]_vars

\* ------------------------------------------------------------------- claims
Range(s) == {s[k] : k \in 1..Len(s)}

\* The line (1-based) that the r-th record of transactions came from: the
\* r-th line whose printed status is "Successfully processed".
Origin(r) ==
    CHOOSE k \in 1..Len(log) :
        /\ log[k] = "ok"
        /\ Cardinality({j \in 1..k : log[j] = "ok"}) = r

\* The line a row of the table came from, through the row's index.
RowLine(row) == lines[Origin(row.idx + 1)]

\* The value, in hundredths, of the numeral an amount text starts with.
Hundredths(t) ==
    IF SubSeq(t, 1, Len(Zero)) = Zero THEN 0
    ELSE IF SubSeq(t, 1, Len(Num1234)) = Num1234 THEN 123450 ELSE -1

RemoveAt(s, k) == SubSeq(s, 1, k - 1) \o SubSeq(s, k + 1, Len(s))

\* The records of a run over ls, line by line.
RECURSIVE RecordsOf(_, _)
RecordsOf(p, ls) ==
    IF ls = <<>> THEN <<>>
    ELSE ExtractLine(p, ls[1]).rec \o RecordsOf(p, Tail(ls))

\* C1: the returned table is sorted non-decreasing by Date, and two rows
\* with the same Date stand in the order of the input lines they came from.
C1_SortedAndStable ==
    /\ IsSortedByDate(df)
    /\ \A a, b \in 1..Len(df) :
           (a < b /\ df[a].Date = df[b].Date)
               => Origin(df[a].idx + 1) < Origin(df[b].idx + 1)

TypeGroupRun == pattern.name # "" /\ pattern.type_group # 0

\* C2 as stated: under a pattern that decides by a type group, a record from
\* a line whose type text is the credit marker has a positive amount, any
\* other a negative amount, of the magnitude of the amount text.
C2_TypeGroupSignStrict ==
    TypeGroupRun =>
        \A r \in 1..Len(transactions) :
            LET line == lines[Origin(r)]
                amt  == transactions[r].Amount
            IN  IF line.typ = pattern.credit_identifier
                THEN amt > 0 /\ amt = Hundredths(line.amt)
                ELSE amt < 0 /\ 0 - amt = Hundredths(line.amt)

\* C2 as amended: under a pattern that decides by a type group, a record
\* from a line whose type text is the credit marker has the value of the
\* amount text as its amount, any other record the negated value (so the
\* amount is positive, or negative, whenever the amount text is not zero).
C2_TypeGroupSign ==
    TypeGroupRun =>
        \A r \in 1..Len(transactions) :
            LET line == lines[Origin(r)]
                amt  == transactions[r].Amount
            IN  /\ Hundredths(line.amt) >= 0
                /\ IF line.typ = pattern.credit_identifier
                   THEN amt = Hundredths(line.amt)
                   ELSE amt = 0 - Hundredths(line.amt)

C2_Witness ==
    /\ pattern = SBI
    /\ \E r, q \in 1..Len(transactions) :
           /\ lines[Origin(r)].typ = <<"C">>
           /\ transactions[r].Amount = 123450
           /\ lines[Origin(q)].typ = <<"D">>
           /\ transactions[q].Amount = -123450

SuffixRun ==
    pattern.name # "" /\ pattern.type_group = 0 /\ pattern.credit_suffix # <<>>

\* C3 as stated: under a pattern that decides by creditSuffix, a record from
\* a line whose raw amount text contains the suffix has a positive amount
\* equal to the numeral, any other a negative amount of that magnitude.
C3_SuffixSignStrict ==
    SuffixRun =>
        \A r \in 1..Len(transactions) :
            LET raw == lines[Origin(r)].amt
                amt == transactions[r].Amount
            IN  IF Contains(raw, pattern.credit_suffix)
                THEN amt > 0 /\ amt = Hundredths(raw)
                ELSE amt < 0 /\ 0 - amt = Hundredths(raw)

\* C3 as amended: under a pattern that decides by creditSuffix, a record
\* from a line whose raw amount text contains the suffix has the value of
\* the numeral (separators and suffix removed) as its amount, any other
\* record the negated value; the test is made on the raw amount text.
C3_SuffixSign ==
    SuffixRun =>
        \A r \in 1..Len(transactions) :
            LET raw == lines[Origin(r)].amt
                amt == transactions[r].Amount
            IN  /\ Hundredths(raw) >= 0
                /\ IF Contains(raw, pattern.credit_suffix)
                   THEN amt = Hundredths(raw)
                   ELSE amt = 0 - Hundredths(raw)

C3_Witness ==
    /\ pattern = HDFC
    /\ \E r, q \in 1..Len(transactions) :
           /\ lines[Origin(r)].amt = Num1234 \o <<" ">> \o Cr
           /\ transactions[r].Amount = 123450
           /\ lines[Origin(q)].amt = Num1234
           /\ transactions[q].Amount = -123450

\* identify_bank has run and returned.
Identified ==
    /\ prog = "process_pdf"
    /\ args.bank = "None"
    /\ pc \notin {"start", "preprocess", "identify"}
    /\ "Preprocessing failed, stopping." \notin Range(output)

MarkerOf(k) == IF k = "sbi" THEN MarkerSbi ELSE MarkerHdfc

\* The first key of order whose marker occurs in text, "None" when none does.
FirstOf(order, text) ==
    LET hits == {k \in 1..Len(order) : Contains(text, MarkerOf(order[k]))}
    IN  IF hits = {} THEN "None"
        ELSE order[CHOOSE k \in hits : \A j \in hits : k <= j]

\* C4 as stated: identify returns the first profile, in the insertion order
\* of the registry BANK_PATTERNS, whose marker occurs in the page text.
C4_RegistryOrder ==
    (Identified /\ ~page.raises) => bank = FirstOf(BankKeys, page.text)

\* C4 as amended: identify_bank returns the first bank, in the order hdfc
\* then sbi of its own marker table, whose marker occurs in the page text,
\* and None when no marker occurs or the page could not be read.
C4_IdentifierOrder ==
    Identified =>
        bank = IF page.raises THEN "None"
               ELSE FirstOf(<<"hdfc", "sbi">>, page.text)

C4_Witness ==
    /\ Identified
    /\ ~page.raises
    /\ Contains(page.text, MarkerSbi)
    /\ Contains(page.text, MarkerHdfc)
    /\ bank = "hdfc"

\* C5: a line that fails (no match, a missing group, a bad date, a bad
\* amount, any exception) never ends the loop: every line is processed, and
\* the records are those of a run over the input without the failing line.
C5_FailingLineSkipped ==
    /\ (pc # "loop" /\ Len(log) > 0) => i = Len(lines)
    /\ (pc # "loop" /\ ~extract_error) => Len(df) = Len(transactions)
    /\ pc = "loop" =>
           /\ ~extract_error
           /\ Len(log) = i
           /\ \A k \in 1..i :
                  log[k] # "ok" =>
                      transactions
                          = RecordsOf(pattern, RemoveAt(SubSeq(lines, 1, i), k))

C5_Witness ==
    /\ pc = "done"
    /\ Len(log) = 3
    /\ log[1] = "ok"
    /\ log[2] = "error"
    /\ log[3] = "ok"
    /\ Len(transactions) = 2

\* The groups the pattern refers to.
Referenced(p) ==
    {p.date_group, p.desc_group, p.amount_group}
        \cup (IF p.type_group # 0 THEN {p.type_group} ELSE {})

PartialMatch(p, line) ==
    LET m == Match(p.pattern, line)
    IN  m.matched /\ m.absent \cap Referenced(p) # {}

\* C6: each line contributes at most one record, and a line that matches
\* with a referenced group absent contributes none and raises no error.
C6_PartialMatchSkipped ==
    /\ Len(transactions) = Cardinality({k \in 1..Len(log) : log[k] = "ok"})
    /\ pc = "loop" =>
           /\ ~extract_error
           /\ \A k \in 1..Len(log) :
                  PartialMatch(pattern, lines[k]) => log[k] = "missing"

C6_Witness ==
    /\ pc = "done"
    /\ Len(log) = 3
    /\ PartialMatch(pattern, lines[2])
    /\ 4 \in Match(pattern.pattern, lines[2]).absent
    /\ log = <<"ok", "missing", "ok">>
    /\ Len(transactions) = 2
    /\ ~extract_error

\* typeGroup and creditSuffix both absent or both present
BadConfiguration(p) ==
    p.name # "" /\ ((p.type_group = 0) <=> (p.credit_suffix = <<>>))

\* C7: no line is processed and no record classified under a pattern whose
\* typeGroup and creditSuffix are both absent or both present.
C7_BadPatternRejected ==
    BadConfiguration(pattern) => (Len(log) = 0 /\ transactions = <<>>)

\* C8: process_pdf reports "No transactions found" only when the extraction
\* completed without error.
C8_NoTransactionsDistinct ==
    (prog = "process_pdf" /\ "No transactions found in the PDF" \in Range(output))
        => ~extract_error

\* C9: the Date of every row of the table is the date that the date text of
\* its line spells in the pattern's input format.
C9_DateRoundTrip ==
    \A a \in 1..Len(df) :
        df[a].Date = to_datetime(RowLine(df[a]).date, pattern.date_format)

\* C10: when process_pdf, or the main of cropbox_locator, is over, the
\* temporary PDF no longer exists.
C10_TempRemoved ==
    (pc = "done" /\ prog \in {"process_pdf", "locator"}) => ~tmp_exists

C10_Witness ==
    /\ pc = "done"
    /\ prog = "process_pdf"
    /\ "Error processing PDF" \in Range(output)
    /\ "Cleaned up temporary files" \in Range(output)
    /\ ~tmp_exists

====
